---- MODULE Spec2Model ----
(***************************************************************************)
(* The request pipeline of the iContact API client (icontact/client.py):   *)
(* IContactClient.__init__, __calc_signature, __do_request and login.      *)
(*                                                                         *)
(* A client is a Python object; its call stack is modelled explicitly as a *)
(* sequence of frames (do_request frames and login frames), because login  *)
(* calls __do_request and __do_request calls login.  The retries           *)
(* "return self.__do_request(call_path, params)" are tail calls: the frame *)
(* is replaced by the frame of the re-issued call, whose result is the     *)
(* result of the replaced one.  The interpreter's recursion limit is not   *)
(* modelled.  Exceptions are never caught in client.py, so a raise unwinds *)
(* the whole stack and ends the public operation.                          *)
(*                                                                         *)
(* Python values that are stored in parameter dictionaries are records     *)
(* PyStr / PyInt / PyNone; a dictionary is a sequence of entries [k, v]    *)
(* with distinct keys, the sequence order standing for the (arbitrary)     *)
(* enumeration order of the dict.                                          *)
(***************************************************************************)
EXTENDS Integers, Sequences, FiniteSets, TLC

VARIABLES
    clients,          \* the client objects this run may construct
    handler,          \* the shared auth_handler's stored (token, sequence)
    constructed,      \* c -> __init__ has run
    auth_handler,     \* c -> self.auth_handler is set
    max_retry_count,  \* c -> self.max_retry_count
    token,            \* c -> self.token
    sequence,         \* c -> self.sequence
    retry_count,      \* c -> self.retry_count
    stack,            \* c -> call stack, innermost frame last
    ret,              \* c -> value returned by the innermost call that returned
    outcome,          \* c -> how the current / last public operation ended
    result,           \* c -> value returned to the caller of the public operation
    call,             \* c -> the public operation in progress (path, parameters)
    start,            \* c -> token, sequence, retry_count when it started
    nReq,             \* c -> HTTP requests issued by the operation
    n503,             \* c -> rate-limited responses received by the operation
    sawStale,         \* c -> the operation received a stale-token response
    nSleep,           \* c -> time.sleep calls of the operation
    lastSleep,        \* c -> duration of the sleep of the step just taken, in 1/RandDen time units
    nGet,             \* c -> calls of auth_handler.get_credentials
    nSet,             \* c -> calls of auth_handler.set_credentials
    log,              \* c -> the last LogCap HTTP events of the operation
    callerMap,        \* c -> the dict object the public operation passed to __do_request
    defaultMap,       \* the dict object that is the default of "parameters" (line 129)
    sigPath,          \* __calc_signature on its own: the call_path argument
    sigParams,        \* the params argument, in its current enumeration order
    sigOut            \* the signature it returned ("" before the call)

vars == <<clients, handler, constructed, auth_handler, max_retry_count, token,
          sequence, retry_count, stack, ret, outcome, result, call, start,
          nReq, n503, sawStale, nSleep, lastSleep, nGet, nSet, log,
          callerMap, defaultMap, sigPath, sigParams, sigOut>>

sigVars == <<sigPath, sigParams, sigOut>>
mainVars == <<clients, handler, constructed, auth_handler, max_retry_count, token,
              sequence, retry_count, stack, ret, outcome, result, call, start,
              nReq, n503, sawStale, nSleep, lastSleep, nGet, nSet, log,
              callerMap, defaultMap>>
heap == <<callerMap, defaultMap>>
clientState == <<token, sequence, retry_count>>
config == <<clients, constructed, auth_handler, max_retry_count, nGet, sigVars>>

----------------------------------------------------------------------------
(* Bounds of the model *)

\* largest max_retry_count a client is constructed with
MaxRetryLimit == 1
\* number of HTTP events kept in the log window
LogCap == 4
\* random.random() is drawn from {0/RandDen, .., (RandDen-1)/RandDen}
RandDen == 2
\* longest parameter mapping handed to __calc_signature on its own
MaxSigLen == 3

\* deepest call stack explored: the server answers a stale-token failure only
\* while the nested login it causes (two frames) fits
MaxDepth == 5

\* the per-operation counters stop counting here
CountCap == MaxRetryLimit + 2

AllClients == {"A", "B"}

----------------------------------------------------------------------------
(* Python values *)

PyNone == [type |-> "none", int |-> 0, str |-> ""]
PyStr(s) == [type |-> "str", int |-> 0, str |-> s]
PyInt(n) == [type |-> "int", int |-> n, str |-> ""]

Digit == <<"0", "1", "2", "3", "4", "5", "6", "7", "8", "9">>

RECURSIVE IntStr(_)
IntStr(n) == IF n < 10 THEN Digit[n + 1] ELSE IntStr(n \div 10) \o Digit[(n % 10) + 1]

\* str(v)
Str(v) == CASE v.type = "int" -> IntStr(v.int)
            [] v.type = "str" -> v.str
            [] OTHER -> "None"

\* int(text) for the decimal texts the server can send
ParseInt(text) == CHOOSE n \in 0..99 : IntStr(n) = text

\* truth value of a Python value ("if not self.token", "if api_put")
Truthy(v) == CASE v.type = "int" -> v.int # 0
               [] v.type = "str" -> v.str # ""
               [] OTHER -> FALSE

----------------------------------------------------------------------------
(* Dictionaries: sequences of entries with distinct keys *)

\* the one element of a singleton set; { F(x) : x \in {e} } evaluates e once
Only(S) == CHOOSE x \in S : TRUE

Entry(k, v) == [k |-> k, v |-> v]

has_key(d, k) == \E i \in 1..Len(d) : d[i].k = k

Get(d, k) == d[CHOOSE i \in 1..Len(d) : d[i].k = k].v

\* d[k] = v: an existing key keeps its place, a new key is added
Update(d, k, v) ==
    IF has_key(d, k)
    THEN [i \in 1..Len(d) |-> IF d[i].k = k THEN Entry(k, v) ELSE d[i]]
    ELSE Append(d, Entry(k, v))

\* del d[k]
Del(d, k) == SelectSeq(d, LAMBDA e : e.k # k)

KeysOf(d) == [i \in 1..Len(d) |-> d[i].k]

\* The parameter names in ascending (string comparison) order.
KeyOrder == <<"api_key", "api_put", "api_seq", "api_sig", "api_tok", "email", "fname">>

KeyRank(k) == CHOOSE i \in 1..Len(KeyOrder) : KeyOrder[i] = k

\* sorted(ks) for distinct keys: the key with i - 1 smaller keys comes i-th
sorted(ks) ==
    Only({ [i \in 1..Len(rk) |->
               ks[CHOOSE j \in 1..Len(rk) :
                     Cardinality({m \in 1..Len(rk) : rk[m] < rk[j]}) = i - 1]] :
           rk \in {<<>> \o [i \in 1..Len(ks) |-> KeyRank(ks[i])]} })

\* ''.join(ss[1..n])
RECURSIVE JoinFirst(_, _)
JoinFirst(ss, n) == IF n = 0 THEN "" ELSE JoinFirst(ss, n - 1) \o ss[n]

Join(ss) == JoinFirst(ss, Len(ss))

----------------------------------------------------------------------------
(* The client's configuration *)

api_key == "KEY"
shared_secret == "SECRET"
LoginPath == "auth/login/user/pw"
OpPaths == {"contacts", "message"}

\* call_path.startswith('auth/login'), over the paths the client builds
IsLoginPath(call_path) == call_path = LoginPath

StaleMessage == "Authorization problem.  Access not allowed."

----------------------------------------------------------------------------
(* __calc_signature *)

\* md5.new(s).hexdigest(): the digest is a function of the signed string only
Md5Hex(s) == "md5(" \o s \o ")"

\* a __calc_signature without lines 120-121
StripSigKeep(params) == params

\* "if params.has_key('api_sig'): del params['api_sig']"
StripSig(params) == IF has_key(params, "api_sig") THEN Del(params, "api_sig") ELSE params

\* a __calc_signature that joins the keys as the dict enumerates them
SignOrderAsEnumerated(params) == KeysOf(params)

\* the order in which the parameters are concatenated
SignOrder(params) == sorted(KeysOf(params))

params_string(params) ==
    Only({ Join([i \in 1..Len(ks) |-> ks[i] \o Str(Get(params, ks[i]))]) :
             ks \in {<<>> \o SignOrder(params)} })

string_to_sign(call_path, params) ==
    Only({ shared_secret \o call_path \o params_string(p) : p \in {StripSig(params)} })

calc_signature(call_path, params) == Md5Hex(string_to_sign(call_path, params))

----------------------------------------------------------------------------
(* Local values of __do_request *)

\* The value bound to "parameters" / "params": a dict, or (after the PUT
\* branch has rebound params to a component of the parsed URL) a string.
\* ref names the object the value is: the caller's dict, the default dict,
\* or an object of the call's own ("local").
DictParams(items) == [isdict |-> TRUE, items |-> items, text |-> "", ref |-> "local"]
StrParams(text) == [isdict |-> FALSE, items |-> <<>>, text |-> text, ref |-> "local"]

\* the dict a public operation passes, and the default "parameters={}"
CallerParams(items) == [DictParams(items) EXCEPT !.ref = "caller"]
DefaultParams == [DictParams(<<>>) EXCEPT !.ref = "default"]

\* the value of "parameters" as the call finds it: a dict that is the
\* caller's or the default is read where it lives
Resolved(c, p) ==
    CASE p.ref = "caller" -> [p EXCEPT !.items = callerMap[c]]
      [] p.ref = "default" -> [p EXCEPT !.items = defaultMap]
      [] OTHER -> p

\* a line 144 that binds params to the dict it was given
ParamsTargetAliased(p) == IF p.isdict THEN p.ref ELSE "local"

\* "params = dict(parameters)", line 144: the object the updates and
\* deletions of lines 147-166 and 121 act on is a new one
ParamsTarget(p) == "local"

\* dict(parameters): a copy of a dict; dict('') is the empty dict
PyDict(p) == p.items

\* urlparse.urlparse(url)[3]: the ";params" of the last path segment, empty
\* for every call path the client builds
urlparse_params(call_path) == ""

\* urllib.urlencode(params): key=str(value) pairs in enumeration order
urlencode(params) == [i \in 1..Len(params) |-> <<params[i].k, Str(params[i].v)>>]

\* a line 147 that keeps an api_key the caller gave
WithApiKeyDefault(parameters) ==
    IF has_key(PyDict(parameters), "api_key")
    THEN PyDict(parameters)
    ELSE Update(PyDict(parameters), "api_key", PyStr(api_key))

\* lines 144-147
WithApiKey(parameters) == Update(PyDict(parameters), "api_key", PyStr(api_key))

\* a line 157 that leaves credentials already in the parameters alone
WithCredentialsKeepOld(params, tok, seq) ==
    IF has_key(params, "api_tok")
    THEN params
    ELSE Update(Update(params, "api_tok", tok), "api_seq", PyInt(seq))

\* line 157
WithCredentials(params, tok, seq) ==
    Update(Update(params, "api_tok", tok), "api_seq", PyInt(seq))

\* line 160
WithSignature(call_path, params) ==
    Only({ Update(StripSig(params), "api_sig", PyStr(sig)) :
             sig \in {calc_signature(call_path, params)} })

\* a __do_request without line 166
WithoutApiPutKeep(params) == params

\* lines 163-168
ApiPut(params) == IF has_key(params, "api_put") THEN Get(params, "api_put") ELSE PyNone
WithoutApiPut(params) == IF has_key(params, "api_put") THEN Del(params, "api_put") ELSE params

\* lines 144-160: the signed parameter set of a request
SignedParams(call_path, parameters, tok, seq) ==
    Only({ WithSignature(call_path, p2) :
             p2 \in { IF IsLoginPath(call_path) THEN p1 ELSE WithCredentials(p1, tok, seq) :
                        p1 \in {WithApiKey(parameters)} } })

\* lines 173-182: the HTTP method
Method(api_put) == IF Truthy(api_put) THEN "PUT" ELSE "GET"

\* the value of the local "params" once the request is on the wire
ParamsAfterSend(call_path, params, api_put) ==
    IF Truthy(api_put) THEN StrParams(urlparse_params(call_path)) ELSE DictParams(params)

----------------------------------------------------------------------------
(* Frames *)

NoParams == DictParams(<<>>)

DoRequestFrame(call_path, parameters) ==
    [fn |-> "do_request", call_path |-> call_path, parameters |-> parameters,
     params |-> NoParams, pc |-> "enter"]

LoginFrame ==
    [fn |-> "login", call_path |-> "", parameters |-> NoParams,
     params |-> NoParams, pc |-> "wait"]

\* login(), line 277: the login frame and the request it makes
LoginCall == <<LoginFrame, DoRequestFrame(LoginPath, DefaultParams)>>

Top(c) == stack[c][Len(stack[c])]
Below(c) == SubSeq(stack[c], 1, Len(stack[c]) - 1)
ReplaceTop(c, f) == Below(c) \o <<f>>

----------------------------------------------------------------------------
(* The server *)

LoginAnswers == {<<"abc123", "7">>, <<"tok2", "3">>}

Response(parses, status, code, message, tok, seq) ==
    [parses |-> parses, status |-> status, error_code |-> code,
     error_message |-> message, token |-> tok, seq |-> seq]

NoResponse == Response(FALSE, "", "", "", "", "")
Unparseable == Response(FALSE, "garbage", "", "", "", "")

Failures ==
    { Response(TRUE, "fail", "503", "Rate limit", "", ""),
      Response(TRUE, "fail", "401", StaleMessage, "", ""),
      Response(TRUE, "fail", "401", "Not yours", "", ""),
      Response(TRUE, "fail", "500", "Oops", "", "") }

Successes(call_path) ==
    IF IsLoginPath(call_path)
    THEN { Response(TRUE, "success", "", "", a[1], a[2]) : a \in LoginAnswers }
    ELSE { Response(TRUE, "success", "", "", "", "") }

Responses(call_path) == Successes(call_path) \cup Failures \cup {Unparseable}

----------------------------------------------------------------------------
(* Observation of the run *)

Count(n) == IF n < CountCap THEN n + 1 ELSE n

ReqEvent(call_path, method, query, body) ==
    [type |-> "req", call_path |-> call_path, method |-> method,
     query |-> query, body |-> body, resp |-> NoResponse]

RespEvent(call_path, r) ==
    [type |-> "resp", call_path |-> call_path, method |-> "",
     query |-> <<>>, body |-> "", resp |-> r]

Logged(l, e) ==
    IF Len(l) < LogCap THEN Append(l, e) ELSE Append(Tail(l), e)

NoResult == [kind |-> "none", xml |-> NoResponse, token |-> PyNone, sequence |-> 0]
XmlResult(r) == [kind |-> "xml", xml |-> r, token |-> PyNone, sequence |-> 0]
CredResult(t, s) == [kind |-> "cred", xml |-> NoResponse, token |-> t, sequence |-> s]

NoCall == [call_path |-> "", parameters |-> <<>>]
NoStart == [token |-> PyNone, sequence |-> 0, retry_count |-> 0]

----------------------------------------------------------------------------
(* Initial state: no client constructed yet, the handler may hold credentials *)

NoCredentials == [token |-> PyNone, sequence |-> 0]
\* what an earlier session may have left in the handler
StoredCredentials == [token |-> PyStr("abc123"), sequence |-> 7]

InitWith(cs) ==
    /\ clients = cs
    /\ handler \in {NoCredentials, StoredCredentials}
    /\ constructed = [c \in AllClients |-> FALSE]
    /\ auth_handler = [c \in AllClients |-> FALSE]
    /\ max_retry_count = [c \in AllClients |-> 0]
    /\ token = [c \in AllClients |-> PyNone]
    /\ sequence = [c \in AllClients |-> 0]
    /\ retry_count = [c \in AllClients |-> 0]
    /\ stack = [c \in AllClients |-> <<>>]
    /\ ret = [c \in AllClients |-> NoResponse]
    /\ outcome = [c \in AllClients |-> "idle"]
    /\ result = [c \in AllClients |-> NoResult]
    /\ call = [c \in AllClients |-> NoCall]
    /\ start = [c \in AllClients |-> NoStart]
    /\ nReq = [c \in AllClients |-> 0]
    /\ n503 = [c \in AllClients |-> 0]
    /\ sawStale = [c \in AllClients |-> FALSE]
    /\ nSleep = [c \in AllClients |-> 0]
    /\ lastSleep = [c \in AllClients |-> 0]
    /\ nGet = [c \in AllClients |-> 0]
    /\ nSet = [c \in AllClients |-> 0]
    /\ log = [c \in AllClients |-> <<>>]
    /\ callerMap = [c \in AllClients |-> <<>>]
    /\ defaultMap = <<>>

Init ==
    /\ InitWith({"A"})
    /\ sigPath = LoginPath
    /\ sigParams = <<>>
    /\ sigOut = ""

----------------------------------------------------------------------------
(* The public operations a caller starts *)

PublicCalls ==
    { [call_path |-> LoginPath, parameters |-> <<>>],
      [call_path |-> "contacts",
       parameters |-> <<Entry("fname", PyStr("b")), Entry("email", PyStr("a"))>>],
      [call_path |-> "message", parameters |-> <<Entry("api_put", PyStr("<m/>"))>>] }

----------------------------------------------------------------------------
(* Actions *)

\* __init__, lines 86-102
Construct(c, h, m) ==
    /\ c \in clients
    /\ ~constructed[c]
    /\ constructed' = [constructed EXCEPT ![c] = TRUE]
    /\ auth_handler' = [auth_handler EXCEPT ![c] = h]
    /\ max_retry_count' = [max_retry_count EXCEPT ![c] = m]
    /\ token' = [token EXCEPT ![c] = IF h THEN handler.token ELSE PyNone]
    /\ sequence' = [sequence EXCEPT ![c] = IF h THEN handler.sequence ELSE 0]
    /\ retry_count' = [retry_count EXCEPT ![c] = 0]
    /\ nGet' = [nGet EXCEPT ![c] = IF h THEN nGet[c] + 1 ELSE nGet[c]]
    /\ UNCHANGED <<heap, clients, handler, stack, ret, outcome, result, call, start,
                   nReq, n503, sawStale, nSleep, lastSleep, nSet, log, sigVars>>

\* A caller invokes a public operation: login() itself, or a data operation
\* that calls __do_request(call_path, parameters).
Call(c, op) ==
    /\ constructed[c]
    /\ stack[c] = <<>>
    /\ stack' = [stack EXCEPT ![c] =
                    IF IsLoginPath(op.call_path) THEN LoginCall
                    ELSE <<DoRequestFrame(op.call_path, CallerParams(op.parameters))>>]
    /\ callerMap' = [callerMap EXCEPT ![c] = op.parameters]
    /\ outcome' = [outcome EXCEPT ![c] = "running"]
    /\ result' = [result EXCEPT ![c] = NoResult]
    /\ ret' = [ret EXCEPT ![c] = NoResponse]
    /\ call' = [call EXCEPT ![c] = op]
    /\ start' = [start EXCEPT ![c] =
                    [token |-> token[c], sequence |-> sequence[c],
                     retry_count |-> retry_count[c]]]
    /\ nReq' = [nReq EXCEPT ![c] = 0]
    /\ n503' = [n503 EXCEPT ![c] = 0]
    /\ sawStale' = [sawStale EXCEPT ![c] = FALSE]
    /\ nSleep' = [nSleep EXCEPT ![c] = 0]
    /\ lastSleep' = [lastSleep EXCEPT ![c] = 0]
    /\ nSet' = [nSet EXCEPT ![c] = 0]
    /\ log' = [log EXCEPT ![c] = <<>>]
    /\ UNCHANGED <<config, handler, clientState, defaultMap>>

\* a counter that is stepped by two
IncrementedTwice(n) == n + 2

\* "self.retry_count += 1", lines 154, 192, 209
Incremented(n) == n + 1

\* An exception leaves __do_request: nothing in client.py catches it.
Raise(c, exc) ==
    /\ stack' = [stack EXCEPT ![c] = <<>>]
    /\ outcome' = [outcome EXCEPT ![c] = exc]
    /\ result' = [result EXCEPT ![c] = NoResult]

\* a __do_request without the guard
RetriesExceededNever(c) == FALSE

\* a guard that lets one more retry through, and one that stops one early
RetriesExceededLate(c) == retry_count[c] > max_retry_count[c] + 1
RetriesExceededEarly(c) == retry_count[c] >= max_retry_count[c]

\* The retry guard, line 141
RetriesExceeded(c) == retry_count[c] > max_retry_count[c]

\* an implicit login that does not look at the call path
NeedsLoginAnyPath(c, call_path) == ~Truthy(token[c])

\* a __do_request without the implicit login
NeedsLoginNever(c, call_path) == FALSE

\* "if not call_path.startswith('auth/login'): if not self.token", lines 151-152
NeedsLogin(c, call_path) == ~IsLoginPath(call_path) /\ ~Truthy(token[c])

\* __do_request, lines 140-156: the retry guard and the implicit login
Enter(c) ==
    /\ stack[c] # <<>>
    /\ Top(c).fn = "do_request"
    /\ Top(c).pc = "enter"
    /\ IF RetriesExceeded(c)
       THEN /\ Raise(c, "ExcessiveRetriesException")
            /\ UNCHANGED retry_count
       ELSE IF NeedsLogin(c, Top(c).call_path)
       THEN /\ retry_count' = [retry_count EXCEPT ![c] = Incremented(@)]
            /\ stack' = [stack EXCEPT ![c] =
                            ReplaceTop(c, [Top(c) EXCEPT !.pc = "login156"]) \o LoginCall]
            /\ UNCHANGED <<outcome, result>>
       ELSE /\ stack' = [stack EXCEPT ![c] = ReplaceTop(c, [Top(c) EXCEPT !.pc = "send"])]
            /\ UNCHANGED <<retry_count, outcome, result>>
    /\ lastSleep' = [lastSleep EXCEPT ![c] = 0]
    /\ UNCHANGED <<config, heap, handler, token, sequence, ret, call, start,
                   nReq, n503, sawStale, nSleep, nSet, log>>

\* a client that asks the handler for the token of each request
CurrentTokenFromHandler(c) == handler.token

\* "self.token", line 157
CurrentToken(c) == token[c]

\* __do_request, lines 144-182: build, sign and send the HTTP request
Send(c) ==
    /\ stack[c] # <<>>
    /\ Top(c).fn = "do_request"
    /\ Top(c).pc = "send"
    /\ \E f \in {Top(c)} :
       \E signed \in {SignedParams(f.call_path, Resolved(c, f.parameters),
                                      CurrentToken(c), sequence[c])} :
       \E api_put \in {ApiPut(signed)}, params \in {WithoutApiPut(signed)} :
          /\ stack' = [stack EXCEPT ![c] =
                          ReplaceTop(c, [f EXCEPT
                              !.params = ParamsAfterSend(f.call_path, params, api_put),
                              !.pc = "wait"])]
          /\ log' = [log EXCEPT ![c] =
                        Logged(@, ReqEvent(f.call_path, Method(api_put), urlencode(params),
                                           IF Truthy(api_put) THEN Str(api_put) ELSE ""))]
          /\ callerMap' = IF ParamsTarget(f.parameters) = "caller"
                          THEN [callerMap EXCEPT ![c] = params] ELSE callerMap
          /\ defaultMap' = IF ParamsTarget(f.parameters) = "default"
                           THEN params ELSE defaultMap
    /\ nReq' = [nReq EXCEPT ![c] = Count(@)]
    /\ UNCHANGED <<config, handler, clientState, ret, outcome, result, call, start,
                   n503, sawStale, nSleep, lastSleep, nSet>>

\* "return xml", line 218: the frame is popped; the caller is login (line 277)
\* or the caller of the public operation
ReturnXml(c, r) ==
    IF Len(stack[c]) = 1
    THEN /\ stack' = [stack EXCEPT ![c] = <<>>]
         /\ outcome' = [outcome EXCEPT ![c] = "Success"]
         /\ result' = [result EXCEPT ![c] = XmlResult(r)]
         /\ UNCHANGED ret
    ELSE /\ stack' = [stack EXCEPT ![c] =
                         SubSeq(@, 1, Len(@) - 2)
                             \o <<[@[Len(@) - 1] EXCEPT !.pc = "store"]>>]
         /\ ret' = [ret EXCEPT ![c] = r]
         /\ UNCHANGED <<outcome, result>>

\* a backoff computed from the counter one too high
SleepOneMore(c, rnd, n) ==
    /\ nSleep' = [nSleep EXCEPT ![c] = Count(@)]
    /\ lastSleep' = [lastSleep EXCEPT ![c] = rnd * (n + 1)]

\* time.sleep(random.random() * n), in 1/RandDen time units
Sleep(c, rnd, n) ==
    /\ nSleep' = [nSleep EXCEPT ![c] = Count(@)]
    /\ lastSleep' = [lastSleep EXCEPT ![c] = rnd * n]

\* a line 184 that hands whatever it read on to the classification
ParsesAlways(r) == TRUE

\* ElementTree.fromstring(response.read()) returns, line 184
Parses(r) == r.parses

\* a success that leaves the counter alone
RetryCountKept(c) == retry_count[c]

\* "self.retry_count = 0", line 217
RetryCountAfterSuccess(c) == 0

\* a __do_request that forgets the token it found stale
TokenDroppedOnStale(c, r) ==
    IF r.status # "success" /\ r.error_code = "401" /\ r.error_message = StaleMessage
    THEN PyNone ELSE token[c]

\* lines 184-218 hold no assignment to self.token
TokenAfterResponse(c, r) == token[c]

\* a 401 branch without the test of the message, lines 202-205
IsStaleTokenAny401(r) == r.status # "success" /\ r.error_code = "401"

\* Classification of a parsed response, lines 187-215
IsSuccess(r) == r.status = "success"
IsRateLimited(r) == ~IsSuccess(r) /\ r.error_code = "503"
IsStaleToken(r) ==
    ~IsSuccess(r) /\ r.error_code = "401" /\ r.error_message = StaleMessage

\* the frame of "return self.__do_request(call_path, params)", lines 197, 212
Reissue(f) == DoRequestFrame(f.call_path, f.params)

\* __do_request, lines 184-218: the response arrives and is classified
Respond(c, r, rnd) ==
    /\ stack[c] # <<>>
    /\ Top(c).fn = "do_request"
    /\ Top(c).pc = "wait"
    /\ r \in Responses(Top(c).call_path)
    /\ log' = [log EXCEPT ![c] = Logged(@, RespEvent(Top(c).call_path, r))]
    /\ token' = [token EXCEPT ![c] = TokenAfterResponse(c, r)]
    /\ IF ~Parses(r)
       THEN /\ Raise(c, "ParseError")
            /\ rnd = 0
            /\ UNCHANGED <<retry_count, ret, n503, sawStale, nSleep, lastSleep>>
       ELSE IF IsSuccess(r)
       THEN /\ retry_count' = [retry_count EXCEPT ![c] = RetryCountAfterSuccess(c)]
            /\ ReturnXml(c, r)
            /\ rnd = 0
            /\ UNCHANGED <<n503, sawStale, nSleep, lastSleep>>
       ELSE IF IsRateLimited(r)
       THEN /\ retry_count' = [retry_count EXCEPT ![c] = Incremented(@)]
            /\ Sleep(c, rnd, Incremented(retry_count[c]))
            /\ stack' = [stack EXCEPT ![c] = ReplaceTop(c, Reissue(Top(c)))]
            /\ n503' = [n503 EXCEPT ![c] = Count(@)]
            /\ UNCHANGED <<ret, outcome, result, sawStale>>
       ELSE IF IsStaleToken(r)
       THEN /\ Len(stack[c]) + 2 <= MaxDepth
            /\ Sleep(c, rnd, retry_count[c])
            /\ retry_count' = [retry_count EXCEPT ![c] = Incremented(@)]
            /\ stack' = [stack EXCEPT ![c] =
                            ReplaceTop(c, [Top(c) EXCEPT !.pc = "login211"]) \o LoginCall]
            /\ sawStale' = [sawStale EXCEPT ![c] = TRUE]
            /\ UNCHANGED <<ret, outcome, result, n503>>
       ELSE /\ Raise(c, "ClientException")
            /\ rnd = 0
            /\ UNCHANGED <<retry_count, ret, n503, sawStale, nSleep, lastSleep>>
    /\ UNCHANGED <<config, heap, handler, sequence, call, start, nReq, nSet>>

\* a login that does not notify the handler
HandlerAfterLoginSilent(c, tok, seq) == handler

\* login, lines 285-286: "if self.auth_handler: set_credentials(token, sequence)"
HandlerAfterLogin(c, tok, seq) ==
    IF auth_handler[c] THEN [token |-> tok, sequence |-> seq] ELSE handler

\* login, lines 279-288: store the credentials, notify the handler, return
\* to line 157 (implicit login), line 212 (re-login) or the caller
LoginStore(c) ==
    /\ stack[c] # <<>>
    /\ Top(c).fn = "login"
    /\ Top(c).pc = "store"
    /\ LET tok == PyStr(ret[c].token)
           seq == ParseInt(ret[c].seq)
           caller == Below(c)
       IN /\ token' = [token EXCEPT ![c] = tok]
          /\ sequence' = [sequence EXCEPT ![c] = seq]
          /\ handler' = HandlerAfterLogin(c, tok, seq)
          /\ nSet' = [nSet EXCEPT ![c] = IF auth_handler[c] THEN Count(@) ELSE @]
          /\ IF caller = <<>>
             THEN /\ stack' = [stack EXCEPT ![c] = <<>>]
                  /\ outcome' = [outcome EXCEPT ![c] = "Success"]
                  /\ result' = [result EXCEPT ![c] = CredResult(tok, seq)]
             ELSE /\ LET f == caller[Len(caller)]
                         rest == SubSeq(caller, 1, Len(caller) - 1)
                     IN stack' = [stack EXCEPT ![c] =
                            rest \o <<IF f.pc = "login156"
                                      THEN [f EXCEPT !.pc = "send"]
                                      ELSE Reissue(f)>>]
                  /\ UNCHANGED <<outcome, result>>
    /\ ret' = [ret EXCEPT ![c] = NoResponse]
    /\ UNCHANGED <<config, heap, retry_count, call, start,
                   nReq, n503, sawStale, nSleep, lastSleep, log>>

Step(c) ==
    \/ Enter(c)
    \/ Send(c)
    \/ \E r \in Responses(LoginPath) \cup Responses("contacts"), rnd \in 0..(RandDen - 1) :
          Respond(c, r, rnd)
    \/ LoginStore(c)

Next ==
    \/ \E c \in AllClients, h \in BOOLEAN, m \in 0..MaxRetryLimit : Construct(c, h, m)
    \/ \E c \in AllClients, op \in PublicCalls : Call(c, op)
    \/ \E c \in AllClients : Step(c)

Spec == Init /\ [][Next]_vars

\* Every client keeps running while the server answers: the calls are
\* synchronous and nothing in client.py waits for anything but the response.
FairSpec == Spec /\ \A c \in AllClients : WF_vars(Step(c))

----------------------------------------------------------------------------
(* __calc_signature applied on its own to bounded inputs *)

SigKeys == {"api_key", "api_sig", "email", "fname"}
SigValues == {PyStr("a"), PyInt(7)}
SigEntries == {Entry(k, v) : k \in SigKeys, v \in SigValues}

DistinctKeys(d) == \A i, j \in 1..Len(d) : d[i].k = d[j].k => i = j

SigDicts ==
    { d \in UNION {[1..n -> SigEntries] : n \in 0..MaxSigLen} : DistinctKeys(d) }

\* the enumeration orders of one mapping
Orders(d) == { [i \in 1..Len(d) |-> d[f[i]]] : f \in Permutations(1..Len(d)) }

SigInit ==
    /\ InitWith({})
    /\ sigPath \in {LoginPath, "contacts"}
    /\ sigParams \in SigDicts
    /\ sigOut = ""

\* __calc_signature(sigPath, sigParams), lines 119-127: api_sig is deleted
\* from the mapping it is given, the signature is returned
SigSign ==
    /\ sigOut = ""
    /\ sigOut' = calc_signature(sigPath, sigParams)
    /\ sigParams' = StripSig(sigParams)
    /\ UNCHANGED <<sigPath, mainVars>>

\* The mapping is enumerated in another order (a dict has no order of its own)
SigReorder ==
    /\ \E d \in Orders(sigParams) : d # sigParams /\ sigParams' = d
    /\ UNCHANGED <<sigPath, sigOut, mainVars>>

\* The caller signs again
SigReset ==
    /\ sigOut # ""
    /\ sigOut' = ""
    /\ UNCHANGED <<sigPath, sigParams, mainVars>>

SigNext == SigSign \/ SigReorder \/ SigReset

SigSpec == SigInit /\ [][SigNext]_vars

----------------------------------------------------------------------------
(* Reading the log *)

Last(l) == l[Len(l)]

IsReq(e) == e.type = "req"
IsResp(e) == e.type = "resp"

QueryHas(q, k) == \E i \in 1..Len(q) : q[i][1] = k
QueryGet(q, k) == q[CHOOSE i \in 1..Len(q) : q[i][1] = k][2]

Running(c) == outcome[c] = "running"
IsOpCall(c) == outcome[c] # "idle" /\ ~IsLoginPath(call[c].call_path)

\* a __do_request call is at its first line
AtGuard(c) == stack[c] # <<>> /\ Top(c).fn = "do_request" /\ Top(c).pc = "enter"

\* a failure response that is neither rate-limited nor a stale-token 401
IsFatalFailure(r) ==
    /\ r.parses
    /\ r.status # "success"
    /\ r.error_code # "503"
    /\ ~(r.error_code = "401" /\ r.error_message = StaleMessage)

----------------------------------------------------------------------------
(* C1 *)

\* C1: every public operation a client has started ends (here: in any way
\* at all), whatever the server answers, as long as the server answers.
C1_EveryCallTerminates ==
    \A c \in AllClients : Running(c) ~> ~Running(c)

----------------------------------------------------------------------------
(* C2 *)

\* C2: a __do_request call that starts while retry_count > max_retry_count
\* raises ExcessiveRetriesException at once: the operation ends with that
\* exception, no HTTP request is issued, and retry_count, token and sequence
\* keep their values.
C2_GuardFailsWithoutRequest ==
    [][\A c \in AllClients :
          (AtGuard(c) /\ retry_count[c] > max_retry_count[c] /\ stack'[c] # stack[c])
          => /\ outcome'[c] = "ExcessiveRetriesException"
             /\ stack'[c] = <<>>
             /\ nReq'[c] = nReq[c]
             /\ log'[c] = log[c]
             /\ retry_count'[c] = retry_count[c]
             /\ token'[c] = token[c]
             /\ sequence'[c] = sequence[c]]_vars

\* a public operation started with the counter already past the limit has
\* failed without any request
C2_Witness ==
    \E c \in AllClients :
        /\ outcome[c] = "ExcessiveRetriesException"
        /\ start[c].retry_count > max_retry_count[c]
        /\ nReq[c] = 0
        /\ retry_count[c] = start[c].retry_count

----------------------------------------------------------------------------
(* C3 *)

\* the operation is a non-login call started with a token and retry_count 0
\* that has met no stale-token response: its responses so far are 503s,
\* followed at most by the response that ended it
FreshRateLimitedCall(c) ==
    /\ IsOpCall(c)
    /\ Truthy(start[c].token)
    /\ start[c].retry_count = 0
    /\ ~sawStale[c]

\* C3: N rate-limited responses followed by a success, N <= max_retry_count:
\* N + 1 requests, the result is the body of the last response, retry_count
\* ends at 0; and no such call is given up before it has met more than
\* max_retry_count rate-limited responses.
C3_RateLimitedThenSuccess ==
    \A c \in AllClients :
        FreshRateLimitedCall(c) =>
            /\ outcome[c] = "Success" =>
                  /\ n503[c] <= max_retry_count[c]
                  /\ nReq[c] = n503[c] + 1
                  /\ retry_count[c] = 0
                  /\ IsResp(Last(log[c]))
                  /\ result[c] = XmlResult(Last(log[c]).resp)
            /\ outcome[c] = "ExcessiveRetriesException" =>
                  n503[c] > max_retry_count[c]

C3_Witness ==
    \E c \in AllClients :
        /\ FreshRateLimitedCall(c)
        /\ outcome[c] = "Success"
        /\ max_retry_count[c] >= 1
        /\ n503[c] = max_retry_count[c]
        /\ nReq[c] = max_retry_count[c] + 1
        /\ retry_count[c] = 0

----------------------------------------------------------------------------
(* C4 *)

\* the i-th logged event is a stale-token response to a non-login request
StaleOnOp(l, i) ==
    /\ IsResp(l[i])
    /\ ~IsLoginPath(l[i].call_path)
    /\ IsStaleToken(l[i].resp)

\* C4: after a stale-token response to a non-login request the next request
\* is a login request; when that login succeeds at once, the request after
\* it is the original call again (not a second login), carrying the token
\* and sequence that login returned.
C4_ReloginThenReissue ==
    \A c \in AllClients : \A i \in 1..Len(log[c]) :
        StaleOnOp(log[c], i) =>
            /\ i + 1 <= Len(log[c]) =>
                  /\ IsReq(log[c][i + 1])
                  /\ IsLoginPath(log[c][i + 1].call_path)
            /\ (i + 3 <= Len(log[c]) /\ IsSuccess(log[c][i + 2].resp)) =>
                  /\ IsReq(log[c][i + 3])
                  /\ log[c][i + 3].call_path = log[c][i].call_path
                  /\ QueryHas(log[c][i + 3].query, "api_tok")
                  /\ QueryHas(log[c][i + 3].query, "api_seq")
                  /\ QueryGet(log[c][i + 3].query, "api_tok") = log[c][i + 2].resp.token
                  /\ QueryGet(log[c][i + 3].query, "api_seq") = log[c][i + 2].resp.seq

\* the re-issued request carries a token other than the stale one
C4_Witness ==
    \E c \in AllClients :
        /\ Len(log[c]) = 4
        /\ StaleOnOp(log[c], 1)
        /\ IsSuccess(log[c][3].resp)
        /\ IsReq(log[c][4])
        /\ Truthy(start[c].token)
        /\ QueryGet(log[c][4].query, "api_tok") = log[c][3].resp.token
        /\ QueryGet(log[c][4].query, "api_tok") # Str(start[c].token)

----------------------------------------------------------------------------
(* C5 *)

\* this step receives a failure response that is neither rate-limited nor
\* a stale-token 401
FatalFailureArrives(c) ==
    /\ log'[c] # log[c]
    /\ log'[c] # <<>>
    /\ IsResp(Last(log'[c]))
    /\ IsFatalFailure(Last(log'[c]).resp)

\* C5: such a response ends the operation with ClientException in the step
\* that receives it: nothing is left to run (no request, login or sleep can
\* follow), no sleep was made, and retry_count, token and sequence are the
\* ones the response found.
C5_FatalFailureEndsCall ==
    [][\A c \in AllClients :
          FatalFailureArrives(c)
          => /\ outcome'[c] = "ClientException"
             /\ stack'[c] = <<>>
             /\ nReq'[c] = nReq[c]
             /\ nSleep'[c] = nSleep[c]
             /\ retry_count'[c] = retry_count[c]
             /\ token'[c] = token[c]
             /\ sequence'[c] = sequence[c]]_vars

\* a 401 with another message than the stale-token text, on the first attempt
C5_Witness ==
    \E c \in AllClients :
        /\ outcome[c] = "ClientException"
        /\ nReq[c] = 1
        /\ Last(log[c]).resp.error_code = "401"
        /\ Last(log[c]).resp.error_message # StaleMessage
        /\ retry_count[c] = start[c].retry_count

----------------------------------------------------------------------------
(* C6 *)

----------------------------------------------------------------------------
(* C7 *)

CallerKeys(parameters) ==
    {parameters[i].k : i \in 1..Len(parameters)} \ {"api_put"}

\* C7: every request of an operation to the operation's own path, the first
\* and the re-issued ones, has the method, the body and the caller's
\* parameters of the call as the caller made it.
C7_ReissueIsSameCall ==
    \A c \in AllClients : \A i \in 1..Len(log[c]) :
        (IsReq(log[c][i]) /\ log[c][i].call_path = call[c].call_path) =>
            /\ log[c][i].method = Method(ApiPut(call[c].parameters))
            /\ log[c][i].body =
                  (IF Truthy(ApiPut(call[c].parameters))
                   THEN Str(ApiPut(call[c].parameters)) ELSE "")
            /\ \A k \in CallerKeys(call[c].parameters) :
                  /\ QueryHas(log[c][i].query, k)
                  /\ QueryGet(log[c][i].query, k) = Str(Get(call[c].parameters, k))

----------------------------------------------------------------------------
(* C8 *)

\* this step is __init__ of c
Constructs(c) == ~constructed[c] /\ constructed'[c]

\* this step is the end of a successful login of c (lines 279-288)
LoginSucceeds(c) ==
    stack[c] # <<>> /\ Top(c).fn = "login" /\ Top(c).pc = "store" /\ stack'[c] # stack[c]

\* an operation started with a token has sent one request: it is the
\* operation's own request, with the credentials held at the start
FirstRequestUsesHeld(c) ==
    (IsOpCall(c) /\ Truthy(start[c].token) /\ nReq[c] = 1 /\ Len(log[c]) = 1) =>
        /\ log[c][1].call_path = call[c].call_path
        /\ QueryGet(log[c][1].query, "api_tok") = Str(start[c].token)
        /\ QueryGet(log[c][1].query, "api_seq") = Str(PyInt(start[c].sequence))

\* C8: with an auth_handler, get_credentials is read at construction and
\* only then, its answer becomes the client's token and sequence;
\* every successful login calls set_credentials, after which the handler
\* holds the client's token and sequence; a client that holds a token sends
\* its first request with it, without a login.
C8_HandlerProtocol ==
    [][\A c \in AllClients :
          /\ (Constructs(c) /\ auth_handler'[c]) =>
                /\ token'[c] = handler.token
                /\ sequence'[c] = handler.sequence
                /\ nGet'[c] = 1
          /\ nGet'[c] # nGet[c] => Constructs(c)
          /\ (LoginSucceeds(c) /\ auth_handler[c]) =>
                /\ token'[c] = PyStr(ret[c].token)
                /\ handler' = [token |-> token'[c], sequence |-> sequence'[c]]
                /\ nSet'[c] = Count(nSet[c])
          /\ auth_handler'[c] => FirstRequestUsesHeld(c)']_vars

\* a client constructed from a handler holding abc123 sent its first request
\* with abc123, met a stale-token response, logged in again and passed the
\* new credentials to the handler
C8_Witness ==
    \E c \in AllClients :
        /\ auth_handler[c]
        /\ nGet[c] = 1
        /\ nSet[c] = 1
        /\ Len(log[c]) = 4
        /\ QueryHas(log[c][1].query, "api_tok")
        /\ QueryGet(log[c][1].query, "api_tok") = "abc123"
        /\ start[c].token = PyStr("abc123")
        /\ token[c] = PyStr("tok2")
        /\ handler = [token |-> token[c], sequence |-> sequence[c]]

----------------------------------------------------------------------------
(* C9 *)

\* C9: the signature __calc_signature returned for a mapping is the
\* signature of that mapping in whatever order it is enumerated, and so is
\* the string that is signed.
C9_SignatureIgnoresOrder ==
    sigOut # "" =>
        /\ calc_signature(sigPath, sigParams) = sigOut
        /\ \A d \in Orders(sigParams) :
              string_to_sign(sigPath, d) = string_to_sign(sigPath, sigParams)

\* a signed mapping of three parameters that is enumerated out of key order
C9_Witness ==
    /\ sigOut # ""
    /\ Len(sigParams) = 3
    /\ KeyRank(sigParams[1].k) > KeyRank(sigParams[2].k)
    /\ KeyRank(sigParams[2].k) > KeyRank(sigParams[3].k)

----------------------------------------------------------------------------
(* C10 *)

SigTexts == {"X", "md5(stale)"}

\* the parameters a request was signed over, read off the request itself:
\* its query without api_sig, and its body as api_put
SentParams(e) ==
    LET q == SelectSeq(e.query, LAMBDA kv : kv[1] # "api_sig")
        d == [i \in 1..Len(q) |-> Entry(q[i][1], PyStr(q[i][2]))]
    IN IF e.method = "PUT" THEN Append(d, Entry("api_put", PyStr(e.body))) ELSE d

\* C10: the api_sig of every request sent is the signature of the request's
\* other parameters alone, also when the call's parameters carried the
\* api_sig of an earlier attempt; and adding api_sig = X to the parameters
\* of any call in progress does not change their signature.
C10_SignatureExcludesApiSig ==
    \A c \in AllClients :
        /\ \A i \in 1..Len(log[c]) :
              IsReq(log[c][i]) =>
                  QueryGet(log[c][i].query, "api_sig")
                      = calc_signature(log[c][i].call_path, SentParams(log[c][i]))
        /\ (stack[c] # <<>> /\ Top(c).fn = "do_request") =>
              \A X \in SigTexts :
                  calc_signature(Top(c).call_path,
                                 Update(PyDict(Top(c).parameters), "api_sig", PyStr(X)))
                    = calc_signature(Top(c).call_path,
                                     Del(PyDict(Top(c).parameters), "api_sig"))

\* a request re-issued after a rate-limited response: its parameters carried
\* the first attempt's api_sig, and it is signed like the first attempt
C10_Witness ==
    \E c \in AllClients :
        /\ Len(log[c]) = 3
        /\ IsReq(log[c][1])
        /\ IsRateLimited(log[c][2].resp)
        /\ IsReq(log[c][3])
        /\ stack[c] # <<>>
        /\ has_key(PyDict(Top(c).parameters), "api_sig")
        /\ QueryHas(log[c][3].query, "email")
        /\ QueryGet(log[c][3].query, "api_sig") = QueryGet(log[c][1].query, "api_sig")

----------------------------------------------------------------------------
(* C11 *)

\* this step reads a response of c
ResponseArrives(c) ==
    /\ log'[c] # log[c]
    /\ log'[c] # <<>>
    /\ IsResp(Last(log'[c]))

\* C11: a response whose body does not parse ends the operation with the
\* parse error in the step that reads it: nothing is left to run (no
\* classification, retry, login or request can follow), no sleep is made,
\* and retry_count, token and sequence are left as they were.
C11_ParseFailureEndsCall ==
    [][\A c \in AllClients :
          (ResponseArrives(c) /\ ~Last(log'[c]).resp.parses)
          => /\ outcome'[c] = "ParseError"
             /\ stack'[c] = <<>>
             /\ nReq'[c] = nReq[c]
             /\ nSleep'[c] = nSleep[c]
             /\ lastSleep'[c] = lastSleep[c]
             /\ n503'[c] = n503[c]
             /\ sawStale'[c] = sawStale[c]
             /\ retry_count'[c] = retry_count[c]
             /\ token'[c] = token[c]
             /\ sequence'[c] = sequence[c]]_vars

\* the retry of a rate-limited call read an unparseable body: the counter
\* keeps the one increment of the retry
C11_Witness ==
    \E c \in AllClients :
        /\ outcome[c] = "ParseError"
        /\ start[c].retry_count = 0
        /\ n503[c] = 1
        /\ nReq[c] = 2
        /\ retry_count[c] = 1
        /\ ~Last(log[c]).resp.parses

----------------------------------------------------------------------------
(* Callers that shape the parameters themselves *)

\* contacts(**kwargs) hands the caller's keywords to __do_request as they
\* are (line 391): keywords that collide with the client's own parameters,
\* and an empty payload; create_message (line 605) as a call with a payload
ParamCalls ==
    { [call_path |-> "contacts",
       parameters |-> <<Entry("email", PyStr("a")), Entry("api_key", PyStr("MINE")),
                        Entry("api_tok", PyStr("old")), Entry("api_seq", PyInt(1))>>],
      [call_path |-> "contacts",
       parameters |-> <<Entry("api_put", PyStr("")), Entry("fname", PyStr("b"))>>],
      [call_path |-> "message", parameters |-> <<Entry("api_put", PyStr("<m/>"))>>] }

ParamNext ==
    \/ \E c \in AllClients, h \in BOOLEAN : Construct(c, h, MaxRetryLimit)
    \/ \E c \in AllClients, op \in ParamCalls : Call(c, op)
    \/ \E c \in AllClients : Step(c)

ParamSpec == Init /\ [][ParamNext]_vars

\* the innermost __do_request call has sent its request and waits for the
\* response: the latest event is that request
Sent(c) == stack[c] # <<>> /\ Top(c).fn = "do_request" /\ Top(c).pc = "wait"

\* the parameters the innermost __do_request call was given
Given(c) == PyDict(Top(c).parameters)

ClientKeys == {"api_key", "api_tok", "api_seq", "api_sig"}

----------------------------------------------------------------------------
(* C12 *)

\* the parameters hold a non-empty payload
HasPayload(P) == IF has_key(P, "api_put") THEN Truthy(Get(P, "api_put")) ELSE FALSE

\* C12: the request of a __do_request call is a PUT with the payload as
\* body exactly when the parameters it was given hold a non-empty api_put,
\* and a GET without body otherwise; its query never holds api_put, and it
\* holds api_key, api_sig, for a non-login call api_tok and api_seq, and
\* every other parameter given, the caller's with the values given.
C12_PutExactlyWithPayload ==
    \A c \in AllClients :
        /\ \A i \in 1..Len(log[c]) :
              IsReq(log[c][i]) =>
                  /\ ~QueryHas(log[c][i].query, "api_put")
                  /\ log[c][i].method \in {"PUT", "GET"}
                  /\ log[c][i].method = "GET" => log[c][i].body = ""
        /\ Sent(c) =>
              LET e == Last(log[c])
                  P == Given(c)
              IN /\ IsReq(e)
                 /\ (e.method = "PUT") <=> HasPayload(P)
                 /\ HasPayload(P) => e.body = Str(Get(P, "api_put"))
                 /\ QueryHas(e.query, "api_key")
                 /\ QueryHas(e.query, "api_sig")
                 /\ ~IsLoginPath(e.call_path) =>
                       QueryHas(e.query, "api_tok") /\ QueryHas(e.query, "api_seq")
                 /\ \A i \in 1..Len(P) :
                       P[i].k # "api_put" =>
                           /\ QueryHas(e.query, P[i].k)
                           /\ P[i].k \notin ClientKeys =>
                                 QueryGet(e.query, P[i].k) = Str(P[i].v)

\* a call given an empty payload has gone out as a GET, the caller's other
\* parameter in its query
C12_Witness ==
    \E c \in AllClients :
        /\ Sent(c)
        /\ has_key(Given(c), "api_put")
        /\ Last(log[c]).method = "GET"
        /\ QueryHas(Last(log[c]).query, "fname")
        /\ nReq[c] = 1

----------------------------------------------------------------------------
(* C16 *)

\* C16: every request, of a first attempt or a retry, of a login or not,
\* carries the client's own api_key, whatever api_key the caller gave; the
\* request of a non-login call carries the client's token and sequence,
\* whatever api_tok and api_seq the caller gave.
C16_ClientParametersOverride ==
    \A c \in AllClients :
        /\ \A i \in 1..Len(log[c]) :
              IsReq(log[c][i]) =>
                  /\ QueryHas(log[c][i].query, "api_key")
                  /\ QueryGet(log[c][i].query, "api_key") = api_key
        /\ (Sent(c) /\ ~IsLoginPath(Top(c).call_path)) =>
              /\ QueryHas(Last(log[c]).query, "api_tok")
              /\ QueryHas(Last(log[c]).query, "api_seq")
              /\ QueryGet(Last(log[c]).query, "api_tok") = Str(token[c])
              /\ QueryGet(Last(log[c]).query, "api_seq") = Str(PyInt(sequence[c]))

\* the caller gave api_key, api_tok and api_seq of its own; the first
\* attempt was rate-limited and the retry carries the client's values
C16_Witness ==
    \E c \in AllClients :
        /\ Sent(c)
        /\ Len(log[c]) = 3
        /\ has_key(call[c].parameters, "api_key")
        /\ Get(call[c].parameters, "api_key") = PyStr("MINE")
        /\ Get(call[c].parameters, "api_tok") = PyStr("old")
        /\ IsReq(log[c][1])
        /\ log[c][1].call_path = "contacts"
        /\ QueryGet(log[c][1].query, "api_key") = api_key
        /\ IsRateLimited(log[c][2].resp)
        /\ QueryGet(log[c][3].query, "api_key") = api_key
        /\ QueryGet(log[c][3].query, "api_tok") = Str(token[c])
        /\ QueryGet(log[c][3].query, "api_tok") # "old"

----------------------------------------------------------------------------
(* C13 *)

\* no login can have succeeded in the operation of c: it is a non-login
\* call that started with a token and has met no stale-token response, so
\* it has made no login at all
NoLoginInCall(c) ==
    /\ IsOpCall(c)
    /\ Truthy(start[c].token)
    /\ ~sawStale[c]

\* C13: once the client is constructed, token and sequence change only in
\* the step in which login stores the answer of a successful login
\* response; during and after an operation that makes no login (it
\* succeeds, fails with any exception, or retries rate-limited requests)
\* they are what they were when the operation started.
C13_CredentialsChangeOnlyInLogin ==
    [][\A c \in AllClients :
          /\ (constructed[c] /\ (token'[c] # token[c] \/ sequence'[c] # sequence[c])) =>
                /\ LoginSucceeds(c)
                /\ IsSuccess(ret[c])
                /\ token'[c] = PyStr(ret[c].token)
                /\ Str(PyInt(sequence'[c])) = ret[c].seq
          /\ NoLoginInCall(c)' =>
                /\ token'[c] = start'[c].token
                /\ sequence'[c] = start'[c].sequence]_vars

\* an operation that was rate-limited, retried and then failed for good
\* ends with the credentials it started with; another login had changed
\* them before
C13_Witness ==
    \E c \in AllClients :
        /\ NoLoginInCall(c)
        /\ outcome[c] = "ClientException"
        /\ n503[c] >= 1
        /\ token[c] = PyStr("tok2")
        /\ token[c] = start[c].token
        /\ sequence[c] = start[c].sequence

----------------------------------------------------------------------------
(* C14 *)

\* n time units, in the unit of lastSleep
TimeUnits(n) == RandDen * n

\* C14: the sleep after a rate-limited response lasts at most the counter
\* after its increment, which is at least 1; the sleep after a stale-token
\* response lasts at most the counter before its increment, so it is zero
\* when the counter was 0; no sleep is longer than max_retry_count + 1;
\* no other response is followed by a sleep.
C14_BackoffBounded ==
    [][\A c \in AllClients :
          ResponseArrives(c) =>
              LET r == Last(log'[c]).resp
              IN /\ lastSleep'[c] <= TimeUnits(max_retry_count[c] + 1)
                 /\ (r.parses /\ r.status # "success" /\ r.error_code = "503") =>
                       /\ retry_count'[c] = retry_count[c] + 1
                       /\ retry_count'[c] >= 1
                       /\ lastSleep'[c] <= TimeUnits(retry_count'[c])
                       /\ nSleep'[c] = Count(nSleep[c])
                 /\ (r.parses /\ r.status # "success" /\ r.error_code = "401"
                        /\ r.error_message = StaleMessage) =>
                       /\ retry_count'[c] = retry_count[c] + 1
                       /\ lastSleep'[c] <= TimeUnits(retry_count[c])
                       /\ nSleep'[c] = Count(nSleep[c])
                 /\ (r.status = "success" \/ IsFatalFailure(r) \/ ~r.parses) =>
                       /\ lastSleep'[c] = 0
                       /\ nSleep'[c] = nSleep[c]]_vars

\* the longest sleep there is: a rate-limited response takes the counter to
\* max_retry_count + 1 and random() is at its largest
C14_Witness ==
    \E c \in AllClients :
        /\ max_retry_count[c] >= 1
        /\ retry_count[c] = max_retry_count[c] + 1
        /\ IsResp(Last(log[c]))
        /\ IsRateLimited(Last(log[c]).resp)
        /\ lastSleep[c] = (RandDen - 1) * retry_count[c]

----------------------------------------------------------------------------
(* C15 *)

\* C15: an operation that started with the counter at 0 and ended with
\* ExcessiveRetriesException has failed more than max_retry_count times,
\* so it has issued more than max_retry_count requests; and a call by a
\* client holding a token, started with the counter at 0, that ends on a
\* rate-limited response without having met a stale-token response has
\* issued exactly max_retry_count + 1 requests, all of them rate-limited,
\* and ends with ExcessiveRetriesException.
C15_ExcessiveOnlyAfterMaxFailures ==
    \A c \in AllClients :
        /\ (outcome[c] = "ExcessiveRetriesException" /\ start[c].retry_count = 0) =>
              nReq[c] > max_retry_count[c]
        /\ (FreshRateLimitedCall(c) /\ ~Running(c) /\ log[c] # <<>>
               /\ IsResp(Last(log[c])) /\ Last(log[c]).resp.error_code = "503") =>
              /\ outcome[c] = "ExcessiveRetriesException"
              /\ nReq[c] = max_retry_count[c] + 1
              /\ n503[c] = max_retry_count[c] + 1

----------------------------------------------------------------------------
(* C17 *)

\* the public operation of c is login() itself
IsLoginCall(c) == outcome[c] # "idle" /\ IsLoginPath(call[c].call_path)

\* this step enters a __do_request call for the login path
EntersLoginRequest(c) ==
    AtGuard(c) /\ IsLoginPath(Top(c).call_path) /\ stack'[c] # stack[c]

\* C17: a login request never carries api_tok or api_seq; a __do_request
\* call for the login path, first or re-issued, either fails at the guard
\* or goes on to send its request, without a login of its own and without
\* counting a retry; a login() that returns has stored the token and the
\* sequence of the latest response, a successful login response, and
\* returns the stored pair.
C17_LoginNeedsNoCredentials ==
    [][\A c \in AllClients :
          /\ \A i \in 1..Len(log'[c]) :
                (IsReq(log'[c][i]) /\ IsLoginPath(log'[c][i].call_path)) =>
                    /\ ~QueryHas(log'[c][i].query, "api_tok")
                    /\ ~QueryHas(log'[c][i].query, "api_seq")
          /\ EntersLoginRequest(c) =>
                /\ retry_count'[c] = retry_count[c]
                /\ \/ stack'[c] = <<>>
                   \/ /\ Len(stack'[c]) = Len(stack[c])
                      /\ Top(c)' = [Top(c) EXCEPT !.pc = "send"]
          /\ (IsLoginCall(c) /\ outcome'[c] = "Success" /\ outcome[c] = "running") =>
                /\ IsResp(Last(log'[c]))
                /\ IsLoginPath(Last(log'[c]).call_path)
                /\ IsSuccess(Last(log'[c]).resp)
                /\ token'[c] = PyStr(Last(log'[c]).resp.token)
                /\ Str(PyInt(sequence'[c])) = Last(log'[c]).resp.seq
                /\ result'[c] = CredResult(token'[c], sequence'[c])]_vars

\* login() by a client without token was rate-limited once, was re-issued
\* without credentials and returned the pair of the second response
C17_Witness ==
    \E c \in AllClients :
        /\ IsLoginCall(c)
        /\ outcome[c] = "Success"
        /\ ~Truthy(start[c].token)
        /\ Len(log[c]) = 4
        /\ IsRateLimited(log[c][2].resp)
        /\ IsReq(log[c][3])
        /\ ~QueryHas(log[c][3].query, "api_tok")
        /\ result[c] = CredResult(PyStr("tok2"), 3)
        /\ token[c] = PyStr("tok2")

----------------------------------------------------------------------------
(* C18 *)

\* the latest event of l is a non-login request and the event before it is
\* the successful response of a login
RequestAfterLogin(l) ==
    /\ Len(l) >= 2
    /\ IsReq(Last(l))
    /\ ~IsLoginPath(Last(l).call_path)
    /\ IsResp(l[Len(l) - 1])
    /\ IsLoginPath(l[Len(l) - 1].call_path)
    /\ IsSuccess(l[Len(l) - 1].resp)

\* C18: when a login nested in a call (the implicit login or the re-login
\* after a stale-token response) has succeeded, retry_count is 0 when
\* login returns to the call and still 0 when the call issues or re-issues
\* its own request: the increment the call made before the login is gone.
C18_NestedLoginResetsCounter ==
    [][\A c \in AllClients :
          /\ (LoginSucceeds(c) /\ Below(c) # <<>>) =>
                /\ retry_count[c] = 0
                /\ retry_count'[c] = 0
          /\ (log'[c] # log[c] /\ RequestAfterLogin(log'[c])) =>
                retry_count'[c] = 0]_vars

\* the call counted one retry for the stale-token response, logged in again
\* and has re-issued its request with the counter back at 0
C18_Witness ==
    \E c \in AllClients :
        /\ IsOpCall(c)
        /\ sawStale[c]
        /\ nSleep[c] = 1
        /\ start[c].retry_count = 0
        /\ RequestAfterLogin(log[c])
        /\ retry_count[c] = 0

----------------------------------------------------------------------------
(* C19 *)

Failed == {"ClientException", "ExcessiveRetriesException", "ParseError"}

\* C19: retry_count goes down only in the step that reads a success
\* response, and then to 0; the step that ends an operation with an
\* exception leaves it as it is, and so does the start of the next
\* operation, which begins with the counter the last one left; while the
\* counter is above max_retry_count it stays as it is, no request is
\* issued, no operation succeeds, and an operation in progress can only
\* end with ExcessiveRetriesException.
C19_CounterResetOnlyBySuccess ==
    [][\A c \in AllClients :
          /\ retry_count'[c] < retry_count[c] =>
                /\ ResponseArrives(c)
                /\ Last(log'[c]).resp.parses
                /\ Last(log'[c]).resp.status = "success"
                /\ retry_count'[c] = 0
          /\ (Running(c) /\ outcome'[c] \in Failed) =>
                retry_count'[c] = retry_count[c]
          /\ (constructed[c] /\ stack[c] = <<>> /\ stack'[c] # <<>>) =>
                /\ retry_count'[c] = retry_count[c]
                /\ start'[c].retry_count = retry_count[c]
          /\ (constructed[c] /\ retry_count[c] > max_retry_count[c]) =>
                /\ retry_count'[c] = retry_count[c]
                /\ outcome'[c] # "Success"
                /\ log'[c] \in {log[c], <<>>}
                /\ nReq'[c] \in {nReq[c], 0}
                /\ (Running(c) /\ stack'[c] # stack[c]) =>
                      outcome'[c] = "ExcessiveRetriesException"]_vars

\* an operation was rate-limited once and gave up; the next one, a
\* login(), started with the counter it left, above max_retry_count, and
\* failed without a request
C19_Witness ==
    \E c \in AllClients :
        /\ IsLoginCall(c)
        /\ outcome[c] = "ExcessiveRetriesException"
        /\ max_retry_count[c] = 0
        /\ start[c].retry_count = 1
        /\ retry_count[c] = 1
        /\ nReq[c] = 0
        /\ Truthy(token[c])

----------------------------------------------------------------------------
(* C20 *)

\* C20: retry_count of a constructed client is between 0 and
\* max_retry_count + 1, and it is at most max_retry_count whenever a
\* request has just been issued (the request is the latest event, or the
\* call waits for its response).
C20_CounterBounded ==
    \A c \in AllClients :
        constructed[c] =>
            /\ max_retry_count[c] >= 0
            /\ 0 <= retry_count[c]
            /\ retry_count[c] <= max_retry_count[c] + 1
            /\ (log[c] # <<>> /\ IsReq(Last(log[c]))) =>
                  retry_count[c] <= max_retry_count[c]
            /\ Sent(c) => retry_count[c] <= max_retry_count[c]

\* the counter at its upper bound, by a rate-limited and then a stale-token
\* response: the re-login is about to be refused by the guard
C20_Witness ==
    \E c \in AllClients :
        /\ AtGuard(c)
        /\ max_retry_count[c] = 1
        /\ n503[c] = 1
        /\ sawStale[c]
        /\ retry_count[c] = max_retry_count[c] + 1

----------------------------------------------------------------------------
(* Two clients that share one auth_handler *)

\* both clients are constructed with the handler (line 90) and make their
\* calls in any interleaving
SharedInit ==
    /\ InitWith(AllClients)
    /\ sigPath = LoginPath
    /\ sigParams = <<>>
    /\ sigOut = ""

SharedCalls == { op \in PublicCalls : op.call_path \in {LoginPath, "contacts"} }

\* what the server answers here: a success, or that the token is stale
SharedResponses(call_path) ==
    { r \in Responses(call_path) : IsSuccess(r) \/ IsStaleToken(r) }

SharedStep(c) ==
    \/ Enter(c)
    \/ Send(c)
    \/ \E r \in SharedResponses(LoginPath) \cup SharedResponses("contacts") : Respond(c, r, 0)
    \/ LoginStore(c)

\* A retries; B, whose part is to log in while A works, does not
SharedRetries(c) == IF c = "A" THEN MaxRetryLimit ELSE 0

SharedNext ==
    \/ \E c \in AllClients : Construct(c, TRUE, SharedRetries(c))
    \/ \E c \in AllClients, op \in SharedCalls : Call(c, op)
    \/ \E c \in AllClients : SharedStep(c)

SharedSpec == SharedInit /\ [][SharedNext]_vars

----------------------------------------------------------------------------
(* C21 *)

\* this step sends a non-login request of c
SendsOpRequest(c) ==
    /\ log'[c] # log[c]
    /\ log'[c] # <<>>
    /\ IsReq(Last(log'[c]))
    /\ ~IsLoginPath(Last(log'[c]).call_path)

Credentials(c) == [token |-> token[c], sequence |-> sequence[c]]

\* C21: of two clients sharing the handler, a login of b puts b's new
\* credentials into the handler and leaves a's token and sequence alone; a
\* reads the handler at its construction only, sends every request with
\* its own token and sequence whatever the handler holds, and changes them
\* only in a login of its own; after that login the handler holds a's
\* credentials, and b's, if they are not the same, differ from the
\* handler's.
C21_SharedHandlerNotReread ==
    [][\A a, b \in AllClients :
          a # b =>
              /\ LoginSucceeds(b) =>
                    /\ handler' = Credentials(b)'
                    /\ Credentials(a)' = Credentials(a)
                    /\ nGet'[a] = nGet[a]
              /\ nGet'[a] # nGet[a] => Constructs(a)
              /\ (constructed[a] /\ Credentials(a)' # Credentials(a)) => LoginSucceeds(a)
              /\ SendsOpRequest(a) =>
                    /\ QueryGet(Last(log'[a]).query, "api_tok") = Str(token[a])
                    /\ QueryGet(Last(log'[a]).query, "api_seq") = Str(PyInt(sequence[a]))
              /\ (LoginSucceeds(a) /\ Credentials(b) # Credentials(a)') =>
                    /\ handler' = Credentials(a)'
                    /\ Credentials(b)' # handler']_vars

\* B logged in and left tok2 in the handler; A, constructed with abc123,
\* sent abc123, was told it is stale, logged in again and now holds what the
\* handler holds, while B holds other credentials than the handler
C21_Witness ==
    /\ constructed["A"] /\ constructed["B"]
    /\ IsLoginCall("B")
    /\ outcome["B"] = "Success"
    /\ token["B"] = PyStr("tok2")
    /\ IsOpCall("A")
    /\ Len(log["A"]) = 4
    /\ IsReq(log["A"][1])
    /\ QueryHas(log["A"][1].query, "api_tok")
    /\ QueryGet(log["A"][1].query, "api_tok") = "abc123"
    /\ StaleOnOp(log["A"], 2)
    /\ IsSuccess(log["A"][4].resp)
    /\ nSet["A"] = 1
    /\ handler = Credentials("A")
    /\ Credentials("B") # handler

----------------------------------------------------------------------------
(* C22 *)

\* C22: the dict a public operation passed to __do_request holds, during
\* the call and after it, whatever its outcome and the number of its
\* retries, exactly what the caller put into it; the dict that is the
\* default of "parameters" stays empty.
C22_CallerMappingUntouched ==
    /\ defaultMap = <<>>
    /\ \A c \in AllClients : callerMap[c] = call[c].parameters

\* a call with a payload met a stale-token response, logged in again (a
\* __do_request call on the default dict) and was re-issued; the caller's
\* dict still holds api_put and nothing else
C22_Witness ==
    \E c \in AllClients :
        /\ IsOpCall(c)
        /\ ~Running(c)
        /\ sawStale[c]
        /\ nReq[c] = 3
        /\ has_key(callerMap[c], "api_put")
        /\ Len(callerMap[c]) = 1
        /\ \E i \in 1..Len(log[c]) :
              /\ IsReq(log[c][i])
              /\ IsLoginPath(log[c][i].call_path)
              /\ QueryHas(log[c][i].query, "api_sig")

====
